---- MODULE Spec2Model ----
(***************************************************************************)
(* The ingest router of refinery (route/route.go): the single-event, batch *)
(* and OTLP handlers, the classifier processEvent they share, and the      *)
(* environment cache.  One request is drawn in Init and handled to its end *)
(* under Spec; CacheSpec runs concurrent environmentCache.get calls;       *)
(* PoolSpec runs concurrent requests over the zstd decoder pool; LifeSpec  *)
(* runs LnS, Stop and the health ticker.                                   *)
(***************************************************************************)
EXTENDS Integers, Sequences, FiniteSets, TLC

VARIABLES
    \* ---- router (Spec) ----
    cfg,         \* the Config getters the classifier reads
    req,         \* the request being handled
    pc,          \* where the handler is: "start", "loop", "done"
    idx,         \* number of records of the request already classified
    env,         \* environment name resolved for the request
    lastCall,    \* the latest processEvent invocation: input, collaborator calls, result
    classified,  \* indices of the records passed to processEvent, in call order
    responses,   \* batchedResponses, as accumulated by Router.batch
    written,     \* what the handler wrote to the http.ResponseWriter, in order
    panicked,    \* a panic left the handler (the middleware answers 500)
    otlpRet,     \* what processOTLPRequest returned ("none" until it returns)
    metrics,     \* Metrics.Increment counters
    \* ---- environment cache (CacheSpec) ----
    items,       \* environmentCache.items: key -> cacheItem (or NoItem)
    readers,     \* goroutines holding mutex.RLock
    writer,      \* goroutine that owns mutex.Lock (pending or held), or NoCaller
    cpc,         \* per goroutine: position inside environmentCache.get
    ckey,        \* per goroutine: the key of its current get
    centry,      \* per goroutine: how its current get found the key on entry
    cret,        \* per goroutine: what its latest get returned
    gets,        \* number of get calls started so far
    lookups,     \* number of getFn invocations started so far, per key
    now,         \* wall clock (time.Now)
    \* ---- zstd decoder pool (PoolSpec) ----
    zstdDecoders, \* Router.zstdDecoders: the decoders buffered in the channel, in order
    dsrc,        \* per decoder: the request whose body it reads, or NoBody after Reset(nil)
    ppc,         \* per request: position inside getMaybeCompressedBody
    penc,        \* per request: its Content-Encoding
    pheld,       \* per request: the decoder it took from the channel, or NoDecoder
    pres,        \* what the latest getMaybeCompressedBody call to return returned
    \* ---- listen, serve and stop (LifeSpec) ----
    grpcEnabled, \* GetGRPCEnabled() && len(grpcAddr) > 0
    server,      \* Router.server: "nil", "serving", "closed"
    serving,     \* the goroutine running ListenAndServe: "none", "running", "exited"
    grpcServer,  \* Router.grpcServer: "nil", "serving", "stopped"
    donech,      \* Router.donech: "nil", "open", "closed"
    closes,      \* number of close(r.donech) calls that closed the channel
    doneWG,      \* Router.doneWG's counter
    spc,         \* where the current Stop call is, "idle" when none is under way
    stops,       \* number of Stop calls so far
    stopRet,     \* what the latest Stop call returned ("none" until one returns)
    stopLog,     \* the steps the latest Stop call has performed, in order
    hpc,         \* the health ticker goroutine: "none", "running", "exited"
    health,      \* what Health.IsAlive / IsReady answer now
    hsrv         \* the gRPC health server's status per service

routerVars == <<cfg, req, pc, idx, env, lastCall, classified, responses, written,
                panicked, otlpRet, metrics>>
cacheVars == <<items, readers, writer, cpc, ckey, centry, cret, gets, lookups, now>>
poolVars == <<zstdDecoders, dsrc, ppc, penc, pheld, pres>>
lifeVars == <<grpcEnabled, server, serving, grpcServer, donech, closes, doneWG, spc,
              stops, stopRet, stopLog, hpc, health, hsrv>>
vars == <<routerVars, cacheVars, poolVars, lifeVars>>
\* what the actions of each part leave alone
notRouter == <<cacheVars, poolVars, lifeVars>>
notCache == <<routerVars, poolVars, lifeVars>>
notPool == <<routerVars, cacheVars, lifeVars>>
notLife == <<routerVars, cacheVars, poolVars>>

----------------------------------------------------------------------------
(* Bounds of the model. *)

\* longest batch / OTLP request body, in records
MaxBatch == 2
\* width of Go's uint in the model (64 in the build; 2^64 is beyond TLC's integers)
UintBits == 16

(* Program constants. *)
defaultSampleRate == 1

----------------------------------------------------------------------------
(* Attribute values: Go's interface{} as decoded from JSON / msgpack.      *)

Absent == [t |-> "absent", v |-> ""]
Null == [t |-> "null", v |-> ""]
Num == [t |-> "number", v |-> "123"]
True == [t |-> "bool", v |-> "true"]
Str(s) == [t |-> "string", v |-> s]

ProbeKey == "meta.refinery.probe"
AttrKeys == {ProbeKey, "trace.trace_id", "traceId", "trace.span_id",
             "trace.parent_id", "parentId"}

MkData(probe, t1, t2, sp, p1, p2) ==
    (ProbeKey :> probe) @@ ("trace.trace_id" :> t1) @@ ("traceId" :> t2)
    @@ ("trace.span_id" :> sp) @@ ("trace.parent_id" :> p1) @@ ("parentId" :> p2)

\* `_, ok := m[k]`: the key is in the map (whatever is stored under it)
Has(d, k) == d[k].t # "absent"
\* `m[k] != nil`: a missing key and a stored nil both read as nil
NotNil(d, k) == d[k].t \notin {"absent", "null"}

\* uint(x) of a signed integer: wraps modulo 2^w
ToUint(x) == x % (2 ^ UintBits)

----------------------------------------------------------------------------
(* Config getters read by the classifier.                                  *)

TraceIdFieldNames == <<"trace.trace_id", "traceId">>
SpanIdFieldNames == <<"trace.span_id">>
ParentIdFieldNameLists == {<<>>, <<"trace.parent_id">>, <<"trace.parent_id", "parentId">>}

Configs == [traceNames : {TraceIdFieldNames}, spanNames : {SpanIdFieldNames},
            parentNames : ParentIdFieldNameLists]
DefaultConfig == [traceNames |-> TraceIdFieldNames, spanNames |-> SpanIdFieldNames,
                  parentNames |-> <<"trace.parent_id", "parentId">>]

----------------------------------------------------------------------------
(* The classifier, Router.processEvent.                                    *)

ErrNil == "nil"
ErrWouldBlock == "ErrWouldBlock"
ErrOther == "ErrOther"

Ret(ok, err) == [ok |-> ok, err |-> err]
NoSpanID == [gen |-> FALSE, v |-> ""]
NoSpan == [traceID |-> "", spanID |-> NoSpanID, isRoot |-> FALSE]

\* one call on a collaborator: on whom, with which event / span, and its answer
Call(op, ev, span, ret) ==
    [op |-> op, rate |-> ev.rate, env |-> ev.env, traceID |-> span.traceID,
     spanID |-> span.spanID, isRoot |-> span.isRoot, ret |-> ret]

Outcome(panic, err, calls, incs) ==
    [panic |-> panic, err |-> err, calls |-> calls, incs |-> incs]

\* a classifier that takes no event for a probe
IsProbeNever(d) == FALSE

\* the probe test of processEvent
IsProbe(d) == NotNil(d, ProbeKey)

\* the trace-ID / span-ID loops: the first configured name that is a key of the
\* map is type-asserted to string (a failed assertion panics) and ends the loop
ExtractID(d, names) ==
    LET present == {i \in 1..Len(names) : Has(d, names[i])}
    IN  IF present = {} THEN [panic |-> FALSE, id |-> ""]
        ELSE LET i == CHOOSE j \in present : \A k \in present : j <= k
                 val == d[names[i]]
             IN  IF val.t = "string" THEN [panic |-> FALSE, id |-> val.v]
                 ELSE [panic |-> TRUE, id |-> ""]

\* types.GenerateSpanID: a function of the trace ID alone
GenerateSpanID(traceID) == [gen |-> TRUE, v |-> traceID]

\* the parent-id loop: every iteration overwrites isRoot with the map's ok
RECURSIVE RootLoop(_, _, _, _)
RootLoop(d, names, i, isRoot) ==
    IF i > Len(names) THEN isRoot
    ELSE RootLoop(d, names, i + 1, Has(d, names[i]))

DetermineRoot(d, names) == RootLoop(d, names, 1, FALSE)

\* SendUpstream without the Metrics.Increment call
SendUpstreamUncounted(ev) ==
    Outcome(FALSE, ErrNil, <<Call("EnqueueEvent", ev, NoSpan, Ret(TRUE, ErrNil))>>, <<>>)

\* the hand-over of a non-trace event to the upstream sink
SendUpstream(ev) ==
    Outcome(FALSE, ErrNil, <<Call("EnqueueEvent", ev, NoSpan, Ret(TRUE, ErrNil))>>,
            <<"incoming_router_nonspan">>)

\* SubmitSpan with the error of AddSpan counted as a drop and then swallowed
SubmitSpanSwallowsError(ev, span, co, before) ==
    LET add == Call("AddSpan", ev, span, Ret(co.add = ErrNil, co.add))
    IN  IF co.add # ErrNil
        THEN Outcome(FALSE, ErrNil, Append(before, add), <<"incoming_router_dropped">>)
        ELSE Outcome(FALSE, ErrNil, Append(before, add), <<"incoming_router_span">>)

\* SubmitSpan with the span counted whatever AddSpan returned
SubmitSpanCountsAlways(ev, span, co, before) ==
    LET add == Call("AddSpan", ev, span, Ret(co.add = ErrNil, co.add))
    IN  IF co.add # ErrNil
        THEN Outcome(FALSE, co.add, Append(before, add),
                     <<"incoming_router_dropped", "incoming_router_span">>)
        ELSE Outcome(FALSE, ErrNil, Append(before, add), <<"incoming_router_span">>)

\* Collector.AddSpan and the counting that follows it
SubmitSpan(ev, span, co, before) ==
    LET add == Call("AddSpan", ev, span, Ret(co.add = ErrNil, co.add))
    IN  IF co.add # ErrNil
        THEN Outcome(FALSE, co.add, Append(before, add), <<"incoming_router_dropped">>)
        ELSE Outcome(FALSE, ErrNil, Append(before, add), <<"incoming_router_span">>)

\* Dispatch without the `if processed { return nil }` of the short circuit
DispatchIgnoresProcessed(ev, span, co) ==
    LET stressed == Call("Stressed", ev, span, Ret(co.stressed, ErrNil))
        psi == Call("ProcessSpanImmediately", ev, span, co.psi)
    IN  IF co.stressed
        THEN IF co.psi.err # ErrNil THEN Outcome(FALSE, co.psi.err, <<stressed, psi>>, <<>>)
             ELSE SubmitSpan(ev, span, co, <<stressed, psi>>)
        ELSE SubmitSpan(ev, span, co, <<stressed>>)

\* Dispatch without the `if err != nil { return err }` of the short circuit
DispatchIgnoresImmediateError(ev, span, co) ==
    LET stressed == Call("Stressed", ev, span, Ret(co.stressed, ErrNil))
        psi == Call("ProcessSpanImmediately", ev, span, co.psi)
    IN  IF co.stressed
        THEN IF co.psi.ok THEN Outcome(FALSE, ErrNil, <<stressed, psi>>, <<>>)
             ELSE SubmitSpan(ev, span, co, <<stressed, psi>>)
        ELSE SubmitSpan(ev, span, co, <<stressed>>)

\* the stress-relief short circuit, then the normal submission
Dispatch(ev, span, co) ==
    LET stressed == Call("Stressed", ev, span, Ret(co.stressed, ErrNil))
        psi == Call("ProcessSpanImmediately", ev, span, co.psi)
    IN  IF co.stressed
        THEN IF co.psi.err # ErrNil THEN Outcome(FALSE, co.psi.err, <<stressed, psi>>, <<>>)
             ELSE IF co.psi.ok THEN Outcome(FALSE, ErrNil, <<stressed, psi>>, <<>>)
             ELSE SubmitSpan(ev, span, co, <<stressed, psi>>)
        ELSE SubmitSpan(ev, span, co, <<stressed>>)

\* a classifier that synthesizes the span ID whatever the event supplies
ProcessEventAlwaysGenerates(c, ev, co) ==
    IF IsProbe(ev.data) THEN Outcome(FALSE, ErrNil, <<>>, <<>>)
    ELSE LET tr == ExtractID(ev.data, c.traceNames)
         IN  IF tr.panic THEN Outcome(TRUE, ErrNil, <<>>, <<>>)
             ELSE IF tr.id = "" THEN SendUpstream(ev)
             ELSE Dispatch(ev,
                           [traceID |-> tr.id,
                            spanID |-> GenerateSpanID(tr.id),
                            isRoot |-> DetermineRoot(ev.data, c.parentNames)],
                           co)

\* Router.processEvent
ProcessEvent(c, ev, co) ==
    IF IsProbe(ev.data) THEN Outcome(FALSE, ErrNil, <<>>, <<>>)
    ELSE LET tr == ExtractID(ev.data, c.traceNames)
         IN  IF tr.panic THEN Outcome(TRUE, ErrNil, <<>>, <<>>)
             ELSE IF tr.id = "" THEN SendUpstream(ev)
             ELSE LET sp == ExtractID(ev.data, c.spanNames)
                  IN  IF sp.panic THEN Outcome(TRUE, ErrNil, <<>>, <<>>)
                      ELSE Dispatch(ev,
                                    [traceID |-> tr.id,
                                     spanID |-> IF sp.id = "" THEN GenerateSpanID(tr.id)
                                                ELSE [gen |-> FALSE, v |-> sp.id],
                                     isRoot |-> DetermineRoot(ev.data, c.parentNames)],
                                    co)

\* what the collector may answer to the calls of one processEvent
CollectorAnswers ==
    [stressed : BOOLEAN,
     psi : {Ret(TRUE, ErrNil), Ret(FALSE, ErrNil), Ret(FALSE, ErrOther)},
     add : {ErrNil, ErrWouldBlock, ErrOther}]

----------------------------------------------------------------------------
(* Requests.                                                               *)

\* sample-rate header values, as character sequences: absent, not a number,
\* zero, negative, positive
SampleRateHeaders == {<<>>, <<"a">>, <<"0">>, <<"-", "1">>, <<"2">>}

DigitOf == ("0" :> 0) @@ ("1" :> 1) @@ ("2" :> 2) @@ ("3" :> 3) @@ ("4" :> 4)
           @@ ("5" :> 5) @@ ("6" :> 6) @@ ("7" :> 7) @@ ("8" :> 8) @@ ("9" :> 9)

RECURSIVE ParseDigits(_, _)
ParseDigits(s, acc) ==
    IF s = <<>> THEN acc ELSE ParseDigits(Tail(s), acc * 10 + DigitOf[Head(s)])

\* strconv.Atoi: an optional sign, then one or more decimal digits
Atoi(s) ==
    LET signed == s # <<>> /\ Head(s) \in {"-", "+"}
        digits == IF signed THEN Tail(s) ELSE s
    IN  IF digits = <<>> \/ \E i \in 1..Len(digits) : digits[i] \notin DOMAIN DigitOf
        THEN [err |-> TRUE, n |-> 0]
        ELSE [err |-> FALSE,
              n |-> IF signed /\ Head(s) = "-" THEN 0 - ParseDigits(digits, 0)
                    ELSE ParseDigits(digits, 0)]

\* what environmentCache.get answers for the request's API key
EnvResults == {[val |-> "prod", err |-> ErrNil], [val |-> "", err |-> ErrNil],
               [val |-> "", err |-> "ErrLookup"]}

AllData ==
    {MkData(probe, t1, t2, sp, p1, p2) :
        probe \in {Absent, True, Null},
        t1 \in {Absent, Str("A"), Str(""), Num},
        t2 \in {Absent, Str("B")},
        sp \in {Absent, Str("S"), Str(""), Num},
        p1 \in {Absent, Str("P")},
        p2 \in {Absent, Str("Q")}}

EmptyData == MkData(Absent, Absent, Absent, Absent, Absent, Absent)
ProbeData == MkData(True, Absent, Absent, Absent, Absent, Absent)
SpanData == MkData(Absent, Str("A"), Absent, Absent, Absent, Absent)
NumericTraceData == MkData(Absent, Num, Absent, Absent, Absent, Absent)

SmallData == {EmptyData, ProbeData, SpanData}

\* the records a batch body is made of: {samplerate, data}
BatchRecords ==
    {[rate |-> 1, data |-> d] :
        d \in {EmptyData, ProbeData, SpanData, NumericTraceData}}
    \cup {[rate |-> n, data |-> SpanData] : n \in {0, -1}}

\* the events husky hands over for an OTLP request: its sample rates are positive
OtlpEvents ==
    {[rate |-> n, data |-> d] : n \in {1, 2}, d \in {EmptyData, SpanData}}
    \cup {[rate |-> 1, data |-> d] : d \in {ProbeData, NumericTraceData}}

SeqsUpTo(S, n) == UNION {[1..k -> S] : k \in 0..n}

Request(kind, decode, dataset, apiErr, key, envRes, hdr, records) ==
    [kind |-> kind, decode |-> decode, dataset |-> dataset, apiErr |-> apiErr,
     key |-> key, envRes |-> envRes, hdr |-> hdr, records |-> records,
     enc |-> "identity"]

\* the request r sent with Content-Encoding enc, its body read as decode says
Encoded(r, enc, decode) == [r EXCEPT !.enc = enc, !.decode = decode]

\* the ways getMaybeCompressedBody fails: the reader cannot be set on the body
\* (gzip.NewReader, zstd Reset), or reading it through fails (io.Copy)
BodyErrors == {"bad_reset", "bad_body"}

\* the ways the request's normalisation inputs can be
Normalisations ==
    {n \in [dataset : {"", "ds"}, apiErr : BOOLEAN, key : {"legacy", "modern"},
            envRes : EnvResults] :
        n.key = "legacy" => n.envRes = [val |-> "prod", err |-> ErrNil]}

GoodNormalisation ==
    [dataset |-> "ds", apiErr |-> FALSE, key |-> "legacy",
     envRes |-> [val |-> "prod", err |-> ErrNil]]

EventRequests ==
    {Request("event", "ok", n.dataset, n.apiErr, n.key, n.envRes, <<>>,
             <<[rate |-> 0, data |-> d]>>) : n \in {GoodNormalisation}, d \in AllData}
    \cup {Request("event", "ok", n.dataset, n.apiErr, n.key, n.envRes, h,
                  <<[rate |-> 0, data |-> d]>>) :
            n \in Normalisations, h \in SampleRateHeaders, d \in SmallData}
    \cup {Request("event", dec, "ds", FALSE, "legacy", GoodNormalisation.envRes, <<>>,
                  <<[rate |-> 0, data |-> SpanData]>>) : dec \in {"bad_body", "bad_json"}}
    \cup {Encoded(Request("event", "ok", "ds", FALSE, "legacy",
                          GoodNormalisation.envRes, <<>>,
                          <<[rate |-> 0, data |-> SpanData]>>), enc, dec) :
            enc \in {"zstd", "gzip"}, dec \in {"ok"} \cup BodyErrors}

BatchRequests ==
    {Request("batch", "ok", n.dataset, n.apiErr, n.key, n.envRes, <<>>, b) :
        n \in Normalisations, b \in SeqsUpTo(BatchRecords, MaxBatch)}
    \cup {Request("batch", dec, "ds", FALSE, "legacy", GoodNormalisation.envRes, <<>>,
                  <<[rate |-> 1, data |-> SpanData]>>) : dec \in {"bad_body", "bad_json"}}
    \cup {Encoded(Request("batch", "ok", "ds", FALSE, "legacy",
                          GoodNormalisation.envRes, <<>>, b), enc, dec) :
            enc \in {"zstd", "gzip"}, dec \in {"ok"} \cup BodyErrors,
            b \in SeqsUpTo({[rate |-> 1, data |-> SpanData]}, MaxBatch)}

OtlpRequests ==
    {Request("otlp", "ok", "ds", n.apiErr, n.key, n.envRes, <<>>, b) :
        n \in {m \in Normalisations : m.dataset = "ds"},
        b \in SeqsUpTo(OtlpEvents, MaxBatch)}

Requests == EventRequests \cup BatchRequests \cup OtlpRequests

NoRequest ==
    Request("none", "ok", "", FALSE, "legacy", GoodNormalisation.envRes, <<>>, <<>>)

----------------------------------------------------------------------------
(* The handlers.                                                           *)

MetricNames == {"incoming_router_proxied", "incoming_router_event",
                "incoming_router_batch", "incoming_router_nonspan",
                "incoming_router_span", "incoming_router_peer",
                "incoming_router_dropped"}

\* Metrics.Increment(name)
Increment(m, name) == [m EXCEPT ![name] = @ + 1]

RECURSIVE IncrementAll(_, _)
IncrementAll(m, names) ==
    IF names = <<>> THEN m ELSE IncrementAll(Increment(m, Head(names)), Tail(names))

\* the status handlerReturnWithError answers with, per error kind
ErrStatus(kind) == IF kind = "ErrJSONBuildFailed" THEN 500 ELSE 400

\* handlerReturnWithError(w, kind, err): one error response written
HTTPError(kind) == [what |-> "error", kind |-> kind, status |-> ErrStatus(kind),
                    entries |-> <<>>]

\* w.Write(json.Marshal(batchedResponses))
HTTPArray(entries) == [what |-> "array", kind |-> "", status |-> 200,
                       entries |-> entries]

\* Router.getEnvironmentName: empty for a legacy key, else the cache's answer
GetEnvironmentName(r) ==
    IF r.key = "legacy" THEN [val |-> "", err |-> ErrNil]
    ELSE IF r.envRes.err # ErrNil THEN [val |-> "", err |-> r.envRes.err]
    ELSE [val |-> r.envRes.val, err |-> ErrNil]

\* the sample rate requestToEvent gives the event
HeaderSampleRate(hdr) ==
    LET parsed == Atoi(hdr)
    IN  ToUint(IF parsed.err THEN 1 ELSE parsed.n)

\* batchedEvent.getSampleRate
GetSampleRate(bev) ==
    IF bev.rate = 0 THEN defaultSampleRate ELSE ToUint(bev.rate)

Event(rate, environment, data) == [rate |-> rate, env |-> environment, data |-> data]

\* Router.requestToEvent
RequestToEvent(r) ==
    LET environment == GetEnvironmentName(r)
        failed == \/ r.dataset = ""
                  \/ r.apiErr
                  \/ environment.err # ErrNil
                  \/ r.decode = "bad_json"
    IN  [err |-> failed,
         ev |-> Event(HeaderSampleRate(r.hdr), environment.val, r.records[1].data)]

\* BatchResponseFor without the errors.Is(err, collect.ErrWouldBlock) case
BatchResponseForAnyError(err) ==
    IF err # ErrNil THEN [status |-> 400, error |-> err]
    ELSE [status |-> 202, error |-> ""]

\* the entry Router.batch appends for a record, from the classifier's error
BatchResponseFor(err) ==
    IF err = ErrWouldBlock THEN [status |-> 429, error |-> err]
    ELSE IF err # ErrNil THEN [status |-> 400, error |-> err]
    ELSE [status |-> 202, error |-> ""]

NoCall == [valid |-> FALSE, idx |-> 0, ev |-> Event(0, "", EmptyData),
           out |-> Outcome(FALSE, ErrNil, <<>>, <<>>)]

Classified(i, ev, out) == [valid |-> TRUE, idx |-> i, ev |-> ev, out |-> out]

\* a decoder whose source is nil (after Reset(nil))
NoBody == 0

\* getMaybeCompressedBody that returns on an error without the deferred
\* Reset(nil) and send
GetMaybeCompressedBodyLeaksOnError(r) ==
    IF r.enc = "zstd"
    THEN LET zReader == Head(zstdDecoders)
         IN  /\ zstdDecoders' = IF r.decode \in BodyErrors THEN Tail(zstdDecoders)
                                ELSE Append(Tail(zstdDecoders), zReader)
             /\ dsrc' = [dsrc EXCEPT ![zReader] = NoBody]
             /\ pres' = IF r.decode \in BodyErrors THEN "err" ELSE "ok"
             /\ UNCHANGED <<ppc, penc, pheld>>
    ELSE UNCHANGED poolVars

\* getMaybeCompressedBody as the one request of a handler runs it, the channel
\* being full: the zstd case receives the first decoder, and its deferred
\* function resets it to nil and sends it back on every return; gzip and the
\* default case leave the channel alone
GetMaybeCompressedBody(r) ==
    IF r.enc = "zstd"
    THEN LET zReader == Head(zstdDecoders)
         IN  /\ zstdDecoders' = Append(Tail(zstdDecoders), zReader)
             /\ dsrc' = [dsrc EXCEPT ![zReader] = NoBody]
             /\ pres' = IF r.decode \in BodyErrors THEN "err" ELSE "ok"
             /\ UNCHANGED <<ppc, penc, pheld>>
    ELSE UNCHANGED poolVars

\* Router.event, from the request's arrival to its return
EventHandler ==
    /\ UNCHANGED <<cacheVars, lifeVars>>
    /\ GetMaybeCompressedBody(req)
    /\ pc = "start"
    /\ req.kind = "event"
    /\ pc' = "done"
    /\ UNCHANGED <<cfg, req, idx, responses, otlpRet>>
    /\ \E co \in CollectorAnswers :
        LET counted == Increment(metrics, "incoming_router_event")
            rte == RequestToEvent(req)
            out == ProcessEvent(cfg, rte.ev, co)
        IN  IF req.decode \in BodyErrors
            THEN /\ written' = <<HTTPError("ErrPostBody")>>
                 /\ metrics' = counted
                 /\ UNCHANGED <<env, lastCall, classified, panicked>>
            ELSE IF rte.err
            THEN /\ written' = <<HTTPError("ErrReqToEvent")>>
                 /\ metrics' = counted
                 /\ UNCHANGED <<env, lastCall, classified, panicked>>
            ELSE /\ env' = rte.ev.env
                 /\ lastCall' = Classified(1, rte.ev, out)
                 /\ classified' = <<1>>
                 /\ panicked' = out.panic
                 /\ metrics' = IncrementAll(counted, out.incs)
                 /\ written' = IF ~out.panic /\ out.err # ErrNil
                                THEN <<HTTPError("ErrReqToEvent")>> ELSE <<>>

\* Router.batch up to its loop: body, decoding, and the normalisation whose
\* failures are answered without returning
BatchBegin ==
    /\ UNCHANGED <<cacheVars, lifeVars>>
    /\ GetMaybeCompressedBody(req)
    /\ pc = "start"
    /\ req.kind = "batch"
    /\ metrics' = Increment(metrics, "incoming_router_batch")
    /\ UNCHANGED <<cfg, req, idx, lastCall, classified, responses, panicked, otlpRet>>
    /\ IF req.decode \in BodyErrors
       THEN /\ written' = <<HTTPError("ErrPostBody")>>
            /\ pc' = "done"
            /\ UNCHANGED env
       ELSE IF req.decode = "bad_json"
       THEN /\ written' = <<HTTPError("ErrJSONFailed")>>
            /\ pc' = "done"
            /\ UNCHANGED env
       ELSE LET environment == GetEnvironmentName(req)
                e1 == IF req.dataset = "" THEN <<HTTPError("ErrReqToEvent")>> ELSE <<>>
                e2 == IF req.apiErr THEN <<HTTPError("ErrReqToEvent")>> ELSE <<>>
                e3 == IF environment.err # ErrNil
                      THEN <<HTTPError("ErrReqToEvent")>> ELSE <<>>
            IN  /\ written' = e1 \o e2 \o e3
                /\ env' = environment.val
                /\ pc' = "loop"

\* one iteration of Router.batch's loop
BatchRecord ==
    /\ UNCHANGED notRouter
    /\ pc = "loop"
    /\ req.kind = "batch"
    /\ idx < Len(req.records)
    /\ UNCHANGED <<cfg, req, env, written, otlpRet>>
    /\ \E co \in CollectorAnswers :
        LET bev == req.records[idx + 1]
            ev == Event(GetSampleRate(bev), env, bev.data)
            out == ProcessEvent(cfg, ev, co)
        IN  /\ lastCall' = Classified(idx + 1, ev, out)
            /\ classified' = Append(classified, idx + 1)
            /\ metrics' = IncrementAll(metrics, out.incs)
            /\ idx' = idx + 1
            /\ panicked' = out.panic
            /\ IF out.panic
               THEN pc' = "done" /\ UNCHANGED responses
               ELSE /\ responses' = Append(responses, BatchResponseFor(out.err))
                    /\ UNCHANGED pc

\* Router.batch after its loop: the response array
BatchEnd ==
    /\ UNCHANGED notRouter
    /\ pc = "loop"
    /\ req.kind = "batch"
    /\ idx = Len(req.records)
    /\ written' = Append(written, HTTPArray(responses))
    /\ pc' = "done"
    /\ UNCHANGED <<cfg, req, idx, env, lastCall, classified, responses, panicked,
                   otlpRet, metrics>>

\* Router.processOTLPRequest up to its loops
OtlpBegin ==
    /\ UNCHANGED notRouter
    /\ pc = "start"
    /\ req.kind = "otlp"
    /\ UNCHANGED <<cfg, req, idx, lastCall, classified, responses, written, panicked,
                   metrics>>
    /\ LET environment == GetEnvironmentName(req)
       IN  IF req.apiErr
           THEN otlpRet' = "error" /\ pc' = "done" /\ UNCHANGED env
           ELSE IF environment.err # ErrNil
           THEN otlpRet' = "nil" /\ pc' = "done" /\ UNCHANGED env
           ELSE env' = environment.val /\ pc' = "loop" /\ UNCHANGED otlpRet

\* one event of the OTLP request (the batches' events, in order)
OtlpEvent ==
    /\ UNCHANGED notRouter
    /\ pc = "loop"
    /\ req.kind = "otlp"
    /\ idx < Len(req.records)
    /\ UNCHANGED <<cfg, req, env, responses, written, otlpRet>>
    /\ \E co \in CollectorAnswers :
        LET oev == req.records[idx + 1]
            ev == Event(ToUint(oev.rate), env, oev.data)
            out == ProcessEvent(cfg, ev, co)
        IN  /\ lastCall' = Classified(idx + 1, ev, out)
            /\ classified' = Append(classified, idx + 1)
            /\ metrics' = IncrementAll(metrics, out.incs)
            /\ idx' = idx + 1
            /\ panicked' = out.panic
            /\ pc' = IF out.panic THEN "done" ELSE pc

\* processOTLPRequest returns after its loops
OtlpEnd ==
    /\ UNCHANGED notRouter
    /\ pc = "loop"
    /\ req.kind = "otlp"
    /\ idx = Len(req.records)
    /\ otlpRet' = "nil"
    /\ pc' = "done"
    /\ UNCHANGED <<cfg, req, idx, env, lastCall, classified, responses, written,
                   panicked, metrics>>

\* the status of the HTTP response: 500 from the panic middleware, else the
\* first status written, else the default
HTTPStatus ==
    IF panicked THEN 500
    ELSE IF written = <<>> THEN 200
    ELSE written[1].status

RouterInit ==
    /\ cfg \in Configs
    /\ req \in Requests
    /\ req.kind = "event" \/ cfg = DefaultConfig
    /\ pc = "start"
    /\ idx = 0
    /\ env = ""
    /\ lastCall = NoCall
    /\ classified = <<>>
    /\ responses = <<>>
    /\ written = <<>>
    /\ panicked = FALSE
    /\ otlpRet = "none"
    /\ metrics = [n \in MetricNames |-> 0]

\* the router with no request (the cache is exercised on its own)
RouterIdle ==
    /\ cfg = DefaultConfig
    /\ req = NoRequest
    /\ pc = "done"
    /\ idx = 0
    /\ env = ""
    /\ lastCall = NoCall
    /\ classified = <<>>
    /\ responses = <<>>
    /\ written = <<>>
    /\ panicked = FALSE
    /\ otlpRet = "none"
    /\ metrics = [n \in MetricNames |-> 0]

RouterNext ==
    \/ EventHandler
    \/ BatchBegin
    \/ BatchRecord
    \/ BatchEnd
    \/ OtlpBegin
    \/ OtlpEvent
    \/ OtlpEnd

----------------------------------------------------------------------------
(* The environment cache: concurrent environmentCache.get calls.           *)

\* goroutines calling get concurrently
NumCallers == 2
\* get calls in a run, over all goroutines
MaxGets == 2
\* the clock's last instant
MaxTime == 1
\* environmentCache.ttl, in clock ticks
CacheTTL == 1

Callers == 1..NumCallers
NoCaller == 0
CacheKeys == {"k1", "k2"}

NoItem == [present |-> FALSE, value |-> "", expiresAt |-> 0]
NoReturn == [set |-> FALSE, val |-> "", err |-> ErrNil]

\* what getFn may answer: an environment name (possibly empty) or an error
LookupResults == {[val |-> "prod", err |-> ErrNil], [val |-> "", err |-> ErrNil],
                  [val |-> "", err |-> "ErrLookup"]}

\* an entry that is taken for valid whatever its expiry time
FreshIgnoresExpiry(key) == items[key].present

\* `item, ok := c.items[key]; ok && time.Now().Before(item.expiresAt)`
Fresh(key) == items[key].present /\ now < items[key].expiresAt

\* sync.RWMutex: RLock waits while a writer owns or awaits the lock
CanRLock == writer = NoCaller
\* a Lock that does not wait for the writer that owns the mutex
CanLockAlways == TRUE

\* sync.RWMutex: Lock calls are serialised among writers
CanLock == writer = NoCaller
\* sync.RWMutex: the pending writer proceeds once the readers have left
ReadersGone == readers = {}

\* environmentCache.addItem
AddItem(key, value) ==
    [items EXCEPT ![key] = [present |-> TRUE, value |-> value,
                            expiresAt |-> now + CacheTTL]]

\* the goroutines whose getFn call for `key` has started and not returned
InFlight(key) == {c \in Callers : cpc[c] = "lookup" /\ ckey[c] = key}

\* how a get call finds the key on entry: "warm" (the key is in the map),
\* "cold" (it is not, and no other get on the key is under way) or "coldjoin"
\* (it is not, and another get on the key is under way)
EntryKind(c, key) ==
    IF items[key].present THEN "warm"
    ELSE IF \E d \in Callers \ {c} : cpc[d] # "idle" /\ ckey[d] = key THEN "coldjoin"
    ELSE "cold"

\* a goroutine enters environmentCache.get(key)
Get(c, key) ==
    /\ UNCHANGED notCache
    /\ cpc[c] = "idle"
    /\ gets < MaxGets
    /\ gets' = gets + 1
    /\ ckey' = [ckey EXCEPT ![c] = key]
    /\ centry' = [centry EXCEPT ![c] = EntryKind(c, key)]
    /\ cret' = [cret EXCEPT ![c] = NoReturn]
    /\ cpc' = [cpc EXCEPT ![c] = "rlock"]
    /\ UNCHANGED <<items, readers, writer, lookups, now>>

\* c.mutex.RLock()
RLock(c) ==
    /\ UNCHANGED notCache
    /\ cpc[c] = "rlock"
    /\ CanRLock
    /\ readers' = readers \cup {c}
    /\ cpc' = [cpc EXCEPT ![c] = "read"]
    /\ UNCHANGED <<items, writer, ckey, centry, cret, gets, lookups, now>>

\* a fast path that goes on to Lock without the RUnlock
FastPathKeepsRLock(c) ==
    /\ UNCHANGED notCache
    /\ cpc[c] = "read"
    /\ LET val == IF Fresh(ckey[c]) THEN items[ckey[c]].value ELSE ""
       IN  IF val # ""
           THEN /\ cret' = [cret EXCEPT ![c] = [set |-> TRUE, val |-> val,
                                               err |-> ErrNil]]
                /\ cpc' = [cpc EXCEPT ![c] = "idle"]
                /\ readers' = readers \ {c}
           ELSE /\ cpc' = [cpc EXCEPT ![c] = "lock"]
                /\ UNCHANGED <<cret, readers>>
    /\ UNCHANGED <<items, writer, ckey, centry, gets, lookups, now>>

\* the fast path: read the item, RUnlock, return a non-empty val
FastPath(c) ==
    /\ UNCHANGED notCache
    /\ cpc[c] = "read"
    /\ readers' = readers \ {c}
    /\ LET val == IF Fresh(ckey[c]) THEN items[ckey[c]].value ELSE ""
       IN  IF val # ""
           THEN /\ cret' = [cret EXCEPT ![c] = [set |-> TRUE, val |-> val,
                                               err |-> ErrNil]]
                /\ cpc' = [cpc EXCEPT ![c] = "idle"]
           ELSE /\ cpc' = [cpc EXCEPT ![c] = "lock"]
                /\ UNCHANGED cret
    /\ UNCHANGED <<items, writer, ckey, centry, gets, lookups, now>>

\* c.mutex.Lock(), first half: become the pending writer
Lock(c) ==
    /\ UNCHANGED notCache
    /\ cpc[c] = "lock"
    /\ CanLock
    /\ writer' = c
    /\ cpc' = [cpc EXCEPT ![c] = "drain"]
    /\ UNCHANGED <<items, readers, ckey, centry, cret, gets, lookups, now>>

\* c.mutex.Lock(), second half: the lock is held once no reader is left
Locked(c) ==
    /\ UNCHANGED notCache
    /\ cpc[c] = "drain"
    /\ ReadersGone
    /\ cpc' = [cpc EXCEPT ![c] = "recheck"]
    /\ UNCHANGED <<items, readers, writer, ckey, centry, cret, gets, lookups, now>>

\* a get that calls getFn under the exclusive lock without looking at the
\* map again
RecheckAlwaysLooksUp(c) ==
    /\ UNCHANGED notCache
    /\ cpc[c] = "recheck"
    /\ lookups' = [lookups EXCEPT ![ckey[c]] = @ + 1]
    /\ cpc' = [cpc EXCEPT ![c] = "lookup"]
    /\ UNCHANGED <<cret, writer>>
    /\ UNCHANGED <<items, readers, ckey, centry, gets, now>>

\* a re-check that, like the fast path, takes an empty value for a miss
RecheckMissesEmpty(c) ==
    /\ UNCHANGED notCache
    /\ cpc[c] = "recheck"
    /\ IF Fresh(ckey[c]) /\ items[ckey[c]].value # ""
       THEN /\ cret' = [cret EXCEPT ![c] = [set |-> TRUE, val |-> items[ckey[c]].value,
                                           err |-> ErrNil]]
            /\ writer' = NoCaller
            /\ cpc' = [cpc EXCEPT ![c] = "idle"]
            /\ UNCHANGED lookups
       ELSE /\ lookups' = [lookups EXCEPT ![ckey[c]] = @ + 1]
            /\ cpc' = [cpc EXCEPT ![c] = "lookup"]
            /\ UNCHANGED <<cret, writer>>
    /\ UNCHANGED <<items, readers, ckey, centry, gets, now>>

\* the re-check under the exclusive lock: return the item, or call getFn
Recheck(c) ==
    /\ UNCHANGED notCache
    /\ cpc[c] = "recheck"
    /\ IF Fresh(ckey[c])
       THEN /\ cret' = [cret EXCEPT ![c] = [set |-> TRUE, val |-> items[ckey[c]].value,
                                           err |-> ErrNil]]
            /\ writer' = NoCaller
            /\ cpc' = [cpc EXCEPT ![c] = "idle"]
            /\ UNCHANGED lookups
       ELSE /\ lookups' = [lookups EXCEPT ![ckey[c]] = @ + 1]
            /\ cpc' = [cpc EXCEPT ![c] = "lookup"]
            /\ UNCHANGED <<cret, writer>>
    /\ UNCHANGED <<items, readers, ckey, centry, gets, now>>

\* a get that stores what getFn returned even when getFn failed
LookupReturnsCachesError(c) ==
    /\ UNCHANGED notCache
    /\ cpc[c] = "lookup"
    /\ \E res \in LookupResults :
        /\ cret' = [cret EXCEPT ![c] = [set |-> TRUE, val |-> res.val, err |-> res.err]]
        /\ items' = AddItem(ckey[c], res.val)
    /\ writer' = NoCaller
    /\ cpc' = [cpc EXCEPT ![c] = "idle"]
    /\ UNCHANGED <<readers, ckey, centry, gets, lookups, now>>

\* getFn returns: the error is handed back, or the value is cached and
\* returned; the deferred Unlock runs either way
LookupReturns(c) ==
    /\ UNCHANGED notCache
    /\ cpc[c] = "lookup"
    /\ \E res \in LookupResults :
        /\ cret' = [cret EXCEPT ![c] = [set |-> TRUE, val |-> res.val, err |-> res.err]]
        /\ items' = IF res.err # ErrNil THEN items ELSE AddItem(ckey[c], res.val)
    /\ writer' = NoCaller
    /\ cpc' = [cpc EXCEPT ![c] = "idle"]
    /\ UNCHANGED <<readers, ckey, centry, gets, lookups, now>>

\* time passes
Tick ==
    /\ UNCHANGED notCache
    /\ now < MaxTime
    /\ now' = now + 1
    /\ UNCHANGED <<items, readers, writer, cpc, ckey, centry, cret, gets, lookups>>

\* newEnvironmentCache, and no get under way
CacheInit ==
    /\ items = [k \in CacheKeys |-> NoItem]
    /\ readers = {}
    /\ writer = NoCaller
    /\ cpc = [c \in Callers |-> "idle"]
    /\ ckey = [c \in Callers |-> "k1"]
    /\ centry = [c \in Callers |-> "warm"]
    /\ cret = [c \in Callers |-> NoReturn]
    /\ gets = 0
    /\ lookups = [k \in CacheKeys |-> 0]
    /\ now = 0

\* the next step of goroutine c inside get
GetStep(c) ==
    \/ RLock(c)
    \/ FastPath(c)
    \/ Lock(c)
    \/ Locked(c)
    \/ Recheck(c)
    \/ LookupReturns(c)

CacheNext ==
    \/ \E c \in Callers, key \in CacheKeys : Get(c, key)
    \/ \E c \in Callers : RLock(c)
    \/ \E c \in Callers : FastPath(c)
    \/ \E c \in Callers : Lock(c)
    \/ \E c \in Callers : Locked(c)
    \/ \E c \in Callers : Recheck(c)
    \/ \E c \in Callers : LookupReturns(c)
    \/ Tick

----------------------------------------------------------------------------
(* The zstd decoder pool: concurrent getMaybeCompressedBody calls.         *)

\* numZstdDecoders: the decoders makeDecoders puts in the channel
numZstdDecoders == 4
\* requests in a run (more than there are decoders)
NumRequests == 5
\* requests in a run that are not zstd-encoded
MaxPlain == 1

Decoders == 1..numZstdDecoders
PoolRequests == 1..NumRequests
NoDecoder == 0
\* the Content-Encoding header values the switch tells apart
Encodings == {"zstd", "gzip", "identity"}

\* makeDecoders(num): a channel of capacity num holding num decoders, each
\* made by zstd.NewReader(nil)
MakeDecoders(num) == [i \in 1..num |-> i]

\* the requests holding a decoder
Holders == {r \in PoolRequests : pheld[r] # NoDecoder}

\* the requests that arrived with another encoding than zstd
Plain == {r \in PoolRequests : ppc[r] # "idle" /\ penc[r] # "zstd"}

\* a request enters getMaybeCompressedBody; the gzip and default cases run to
\* their return without touching the channel (requests are numbered in the
\* order they arrive)
Arrive(r, enc) ==
    /\ UNCHANGED notPool
    /\ ppc[r] = "idle"
    /\ IF r = 1 THEN TRUE ELSE ppc[r - 1] # "idle"
    /\ enc # "zstd" => Cardinality(Plain) < MaxPlain
    /\ penc' = [penc EXCEPT ![r] = enc]
    /\ IF enc = "zstd"
       THEN /\ ppc' = [ppc EXCEPT ![r] = "receive"]
            /\ UNCHANGED pres
       ELSE /\ ppc' = [ppc EXCEPT ![r] = "done"]
            /\ \E res \in (IF enc = "gzip" THEN {"ok", "err"} ELSE {"ok"}) :
                   pres' = res
    /\ UNCHANGED <<zstdDecoders, dsrc, pheld>>

\* the deferred function, for the request holding decoder d:
\* zReader.Reset(nil), then the decoder is sent back (the send blocks while
\* the channel is full); `queue` is the channel's buffer before the send
Release(r, d, queue, res) ==
    /\ Len(queue) < numZstdDecoders
    /\ dsrc' = [dsrc EXCEPT ![d] = NoBody]
    /\ zstdDecoders' = Append(queue, d)
    /\ pheld' = [pheld EXCEPT ![r] = NoDecoder]
    /\ pres' = res
    /\ ppc' = [ppc EXCEPT ![r] = "done"]

\* a return on a Reset error that does not send the decoder back
ReceiveLeaksOnError(r) ==
    /\ UNCHANGED notPool
    /\ ppc[r] = "receive"
    /\ zstdDecoders # <<>>
    /\ \/ /\ pheld' = [pheld EXCEPT ![r] = Head(zstdDecoders)]
          /\ zstdDecoders' = Tail(zstdDecoders)
          /\ dsrc' = [dsrc EXCEPT ![Head(zstdDecoders)] = r]
          /\ ppc' = [ppc EXCEPT ![r] = "copy"]
          /\ UNCHANGED pres
       \/ /\ zstdDecoders' = Tail(zstdDecoders)
          /\ pres' = "err"
          /\ ppc' = [ppc EXCEPT ![r] = "done"]
          /\ UNCHANGED <<dsrc, pheld>>
    /\ UNCHANGED penc

\* `zReader := <-r.zstdDecoders` (blocks while the channel is empty), then
\* `err := zReader.Reset(req.Body)`: on an error the function returns and the
\* deferred function runs
Receive(r) ==
    /\ UNCHANGED notPool
    /\ ppc[r] = "receive"
    /\ zstdDecoders # <<>>
    /\ \/ /\ pheld' = [pheld EXCEPT ![r] = Head(zstdDecoders)]
          /\ zstdDecoders' = Tail(zstdDecoders)
          /\ dsrc' = [dsrc EXCEPT ![Head(zstdDecoders)] = r]
          /\ ppc' = [ppc EXCEPT ![r] = "copy"]
          /\ UNCHANGED pres
       \/ Release(r, Head(zstdDecoders), Tail(zstdDecoders), "err")
    /\ UNCHANGED penc

\* a return that sends the decoder back still reading the request's body
CopyWithoutReset(r) ==
    /\ UNCHANGED notPool
    /\ ppc[r] = "copy"
    /\ Len(zstdDecoders) < numZstdDecoders
    /\ zstdDecoders' = Append(zstdDecoders, pheld[r])
    /\ pheld' = [pheld EXCEPT ![r] = NoDecoder]
    /\ \E res \in {"ok", "err"} : pres' = res
    /\ ppc' = [ppc EXCEPT ![r] = "done"]
    /\ UNCHANGED <<dsrc, penc>>

\* `io.Copy(buf, zReader)` ends, with or without an error; the function
\* returns and the deferred function runs
Copy(r) ==
    /\ UNCHANGED notPool
    /\ ppc[r] = "copy"
    /\ \E res \in {"ok", "err"} : Release(r, pheld[r], zstdDecoders, res)
    /\ UNCHANGED penc

\* LnS has made the decoders, and no request has arrived
PoolInit ==
    /\ zstdDecoders = MakeDecoders(numZstdDecoders)
    /\ dsrc = [d \in Decoders |-> NoBody]
    /\ ppc = [r \in PoolRequests |-> "idle"]
    /\ penc = [r \in PoolRequests |-> "identity"]
    /\ pheld = [r \in PoolRequests |-> NoDecoder]
    /\ pres = "none"

PoolNext ==
    \/ \E r \in PoolRequests, enc \in Encodings : Arrive(r, enc)
    \/ \E r \in PoolRequests : Receive(r)
    \/ \E r \in PoolRequests : Copy(r)

----------------------------------------------------------------------------
(* Listen and serve, Stop, and the health ticker.                          *)

\* Stop calls in a run
MaxStops == 2

\* the services healthchecker reports on: the whole system, ready, alive
Services == {"", "ready", "alive"}
HealthStates == [alive : BOOLEAN, ready : BOOLEAN]

\* setStatus's argument to SetServingStatus
ServingStatus(stat) == IF stat THEN "SERVING" ELSE "NOT_SERVING"

\* Router.LnS, from the done channel on: the gRPC server is made and served
\* when enabled, then the HTTP server is served in a goroutine of its own
LnS ==
    /\ UNCHANGED notLife
    /\ server = "nil"
    /\ donech' = "open"
    /\ grpcServer' = IF grpcEnabled THEN "serving" ELSE "nil"
    /\ doneWG' = doneWG + 1
    /\ serving' = "running"
    /\ server' = "serving"
    /\ UNCHANGED <<grpcEnabled, closes, spc, stops, stopRet, stopLog, hpc, health, hsrv>>

\* ListenAndServe returns (the server was shut down, or could not listen) and
\* the deferred doneWG.Done() runs
ListenAndServeReturns ==
    /\ UNCHANGED notLife
    /\ serving = "running"
    /\ serving' = "exited"
    /\ doneWG' = doneWG - 1
    /\ UNCHANGED <<grpcEnabled, server, grpcServer, donech, closes, spc, stops,
                   stopRet, stopLog, hpc, health, hsrv>>

\* Router.Stop is called
StopCalled ==
    /\ UNCHANGED notLife
    /\ spc = "idle"
    /\ server # "nil"
    /\ stops < MaxStops
    /\ stops' = stops + 1
    /\ stopRet' = "none"
    /\ stopLog' = <<>>
    /\ spc' = "shutdown"
    /\ UNCHANGED <<grpcEnabled, server, serving, grpcServer, donech, closes, doneWG,
                   hpc, health, hsrv>>

\* `err := r.server.Shutdown(ctx)`: the listeners are closed; an error (the
\* one-minute deadline passed, or a listener failed to close) is returned
\* by Stop at once
Shutdown ==
    /\ UNCHANGED notLife
    /\ spc = "shutdown"
    /\ server' = "closed"
    /\ stopLog' = Append(stopLog, "Shutdown")
    /\ \E failed \in BOOLEAN :
          IF failed
          THEN stopRet' = "err" /\ spc' = "idle"
          ELSE spc' = "grpc" /\ UNCHANGED stopRet
    /\ UNCHANGED <<grpcEnabled, serving, grpcServer, donech, closes, doneWG, stops,
                   hpc, health, hsrv>>

\* `if r.grpcServer != nil { r.grpcServer.GracefulStop() }`
GracefulStop ==
    /\ UNCHANGED notLife
    /\ spc = "grpc"
    /\ IF grpcServer # "nil"
       THEN grpcServer' = "stopped" /\ stopLog' = Append(stopLog, "GracefulStop")
       ELSE UNCHANGED <<grpcServer, stopLog>>
    /\ spc' = "close"
    /\ UNCHANGED <<grpcEnabled, server, serving, donech, closes, doneWG, stops,
                   stopRet, hpc, health, hsrv>>

\* `close(r.donech)`: closing a closed channel panics
CloseDone ==
    /\ UNCHANGED notLife
    /\ spc = "close"
    /\ IF donech = "closed"
       THEN /\ stopRet' = "panic"
            /\ spc' = "idle"
            /\ UNCHANGED <<donech, closes, stopLog>>
       ELSE /\ donech' = "closed"
            /\ closes' = closes + 1
            /\ stopLog' = Append(stopLog, "close")
            /\ spc' = "wait"
            /\ UNCHANGED stopRet
    /\ UNCHANGED <<grpcEnabled, server, serving, grpcServer, doneWG, stops, hpc,
                   health, hsrv>>

\* `r.doneWG.Wait()` returns once the counter is zero, and Stop returns nil
Wait ==
    /\ UNCHANGED notLife
    /\ spc = "wait"
    /\ doneWG = 0
    /\ stopLog' = Append(stopLog, "Wait")
    /\ stopRet' = "nil"
    /\ spc' = "idle"
    /\ UNCHANGED <<grpcEnabled, server, serving, grpcServer, donech, closes, doneWG,
                   stops, hpc, health, hsrv>>

\* Router.healthchecker is called on a router that listens: it starts the
\* ticker goroutine
Healthchecker ==
    /\ UNCHANGED notLife
    /\ hpc = "none"
    /\ donech # "nil"
    /\ hpc' = "running"
    /\ UNCHANGED <<grpcEnabled, server, serving, grpcServer, donech, closes, doneWG,
                   spc, stops, stopRet, stopLog, health, hsrv>>

\* a ticker goroutine that goes on ticking after it has received from donech
HealthTickAfterDone ==
    /\ UNCHANGED notLife
    /\ hpc \in {"running", "exited"}
    /\ hsrv' = [svc \in Services |->
                  IF svc = "ready" THEN ServingStatus(health.ready)
                  ELSE IF svc = "alive" THEN ServingStatus(health.alive)
                  ELSE ServingStatus(health.ready /\ health.alive)]
    /\ UNCHANGED <<grpcEnabled, server, serving, grpcServer, donech, closes, doneWG,
                   spc, stops, stopRet, stopLog, hpc, health>>

\* `case <-watchticker.C`: the three statuses are set from the reporter
HealthTick ==
    /\ UNCHANGED notLife
    /\ hpc = "running"
    /\ hsrv' = [svc \in Services |->
                  IF svc = "ready" THEN ServingStatus(health.ready)
                  ELSE IF svc = "alive" THEN ServingStatus(health.alive)
                  ELSE ServingStatus(health.ready /\ health.alive)]
    /\ UNCHANGED <<grpcEnabled, server, serving, grpcServer, donech, closes, doneWG,
                   spc, stops, stopRet, stopLog, hpc, health>>

\* `case <-r.donech: return`: a closed channel can be received from
HealthExit ==
    /\ UNCHANGED notLife
    /\ hpc = "running"
    /\ donech = "closed"
    /\ hpc' = "exited"
    /\ UNCHANGED <<grpcEnabled, server, serving, grpcServer, donech, closes, doneWG,
                   spc, stops, stopRet, stopLog, health, hsrv>>

\* the health reporter's answers change
HealthChanges ==
    /\ UNCHANGED notLife
    /\ \E h \in HealthStates \ {health} : health' = h
    /\ UNCHANGED <<grpcEnabled, server, serving, grpcServer, donech, closes, doneWG,
                   spc, stops, stopRet, stopLog, hpc, hsrv>>

\* a Router before LnS, with gRPC enabled or not and the reporter answering h
LifeStart(enabled, h) ==
    /\ grpcEnabled = enabled
    /\ server = "nil"
    /\ serving = "none"
    /\ grpcServer = "nil"
    /\ donech = "nil"
    /\ closes = 0
    /\ doneWG = 0
    /\ spc = "idle"
    /\ stops = 0
    /\ stopRet = "none"
    /\ stopLog = <<>>
    /\ hpc = "none"
    /\ health = h
    /\ hsrv = [svc \in Services |-> "unset"]

LifeInit == \E enabled \in BOOLEAN, h \in HealthStates : LifeStart(enabled, h)

\* the lifecycle left alone (the other parts are exercised on their own)
LifeIdle == LifeStart(FALSE, [alive |-> TRUE, ready |-> TRUE])

LifeNext ==
    \/ LnS
    \/ ListenAndServeReturns
    \/ StopCalled
    \/ Shutdown
    \/ GracefulStop
    \/ CloseDone
    \/ Wait
    \/ Healthchecker
    \/ HealthTick
    \/ HealthExit
    \/ HealthChanges

----------------------------------------------------------------------------
(* Specifications.                                                         *)

Init == RouterInit /\ CacheInit /\ PoolInit /\ LifeIdle
Next == RouterNext
\* one request, handled from arrival to response
Spec == Init /\ [][Next]_vars

CacheSpecInit == RouterIdle /\ CacheInit /\ PoolInit /\ LifeIdle
\* concurrent gets on the environment cache
CacheSpec == CacheSpecInit /\ [][CacheNext]_vars
\* the same under fair scheduling: a goroutine inside get that can take its
\* next step does (it is scheduled, and its getFn call returns)
CacheFairSpec ==
    /\ CacheSpecInit
    /\ [][CacheNext]_vars
    /\ \A c \in Callers : WF_vars(GetStep(c))

PoolSpecInit == RouterIdle /\ CacheInit /\ PoolInit /\ LifeIdle
\* concurrent requests taking their bodies
PoolSpec == PoolSpecInit /\ [][PoolNext]_vars
\* the same under fair scheduling: a request that can receive a decoder does,
\* and every Reset and body read finishes
PoolFairSpec ==
    /\ PoolSpecInit
    /\ [][PoolNext]_vars
    /\ \A r \in PoolRequests :
          WF_vars(Receive(r)) /\ WF_vars(Copy(r))

LifeSpecInit == RouterIdle /\ CacheInit /\ PoolInit /\ LifeInit
\* LnS, Stop calls and the health ticker
LifeSpec == LifeSpecInit /\ [][LifeNext]_vars
\* the same under fair scheduling of the ticker goroutine: its select takes
\* the donech case once that case stays ready
LifeFairSpec == LifeSpecInit /\ [][LifeNext]_vars /\ WF_vars(HealthExit)

----------------------------------------------------------------------------
(* Properties of the handlers and the classifier (under Spec).             *)

\* the calls of the latest classifier invocation on operation `op`
CallsOn(op) == {i \in DOMAIN lastCall.out.calls : lastCall.out.calls[i].op = op}

\* the latest classifier invocation handed something downstream
Downstream == CallsOn("EnqueueEvent") \cup CallsOn("ProcessSpanImmediately")
              \cup CallsOn("AddSpan")

\* C1: for a batch whose body decodes to k records, every record is passed to
\* the classifier exactly once, in input order, whatever happened to the
\* records before it, and the response array has k entries, entry i being the
\* status of record i.
C1_BatchClassifiesEveryRecord ==
    (req.kind = "batch" /\ req.decode = "ok") =>
        /\ classified = [i \in 1..idx |-> i]
        /\ pc = "loop" => Len(responses) = idx
        /\ pc = "done" =>
            /\ idx = Len(req.records)
            /\ written # <<>>
            /\ written[Len(written)].what = "array"
            /\ written[Len(written)].entries = responses
            /\ Len(responses) = Len(req.records)

\* C2: in a batch response a record's status is 202 exactly when the
\* classifier returned no error for it, 429 exactly when it returned the
\* collector's would-block error, 400 exactly when it returned another error;
\* the error string is present exactly in the 429 and 400 entries.
C2_BatchStatusPerRecord ==
    (req.kind = "batch" /\ lastCall.valid /\ ~lastCall.out.panic) =>
        /\ Len(responses) = lastCall.idx
        /\ LET entry == responses[lastCall.idx]
               err == lastCall.out.err
           IN  /\ entry.status = 202 <=> err = ErrNil
               /\ entry.status = 429 <=> err = ErrWouldBlock
               /\ entry.status = 400 <=> err \notin {ErrNil, ErrWouldBlock}
        /\ \A i \in DOMAIN responses :
            /\ responses[i].status \in {202, 429, 400}
            /\ responses[i].error # "" <=> responses[i].status \in {429, 400}
        /\ \A i \in DOMAIN written :
            written[i].what = "array" => written[i].entries = responses

C2_Witness ==
    /\ req.kind = "batch"
    /\ pc = "done"
    /\ Len(responses) = 2
    /\ responses[1].status = 429
    /\ responses[2].status = 400
    /\ lastCall.out.err = ErrOther

\* C3: an event whose attributes contain the key meta.refinery.probe, whatever
\* is stored under it, is dropped: the classifier returns success, calls
\* neither the upstream sink nor the collector, and counts nothing.
C3_ProbeDropped ==
    (lastCall.valid /\ Has(lastCall.ev.data, ProbeKey)) =>
        /\ ~lastCall.out.panic
        /\ lastCall.out.err = ErrNil
        /\ lastCall.out.calls = <<>>
        /\ lastCall.out.incs = <<>>

\* the event of the latest invocation has none of the configured trace-ID names
NoTraceIDName == \A i \in DOMAIN cfg.traceNames : ~Has(lastCall.ev.data, cfg.traceNames[i])

\* C4: a non-probe event with none of the configured trace-ID attribute names
\* goes to the upstream sink exactly once, counts one non-span, reaches no
\* collector operation, and the classifier returns success.
C4_NonSpanUpstream ==
    (lastCall.valid /\ ~Has(lastCall.ev.data, ProbeKey) /\ NoTraceIDName) =>
        /\ ~lastCall.out.panic
        /\ lastCall.out.err = ErrNil
        /\ Len(lastCall.out.calls) = 1
        /\ lastCall.out.calls[1].op = "EnqueueEvent"
        /\ lastCall.out.incs = <<"incoming_router_nonspan">>
        /\ metrics["incoming_router_nonspan"] >= 1

C4_Witness ==
    /\ lastCall.valid
    /\ ~Has(lastCall.ev.data, ProbeKey)
    /\ NoTraceIDName
    /\ Has(lastCall.ev.data, "trace.parent_id")
    /\ CallsOn("EnqueueEvent") = {1}

\* C5: when the collector says it is stressed and ProcessSpanImmediately
\* answers (true, nil), the classifier returns success and never calls AddSpan.
C5_ProcessedImmediatelySkipsAddSpan ==
    (/\ lastCall.valid
     /\ \E i \in CallsOn("Stressed") : lastCall.out.calls[i].ret.ok
     /\ \E i \in CallsOn("ProcessSpanImmediately") :
            lastCall.out.calls[i].ret = Ret(TRUE, ErrNil)) =>
        /\ lastCall.out.err = ErrNil
        /\ ~lastCall.out.panic
        /\ CallsOn("AddSpan") = {}

C5_Witness ==
    /\ lastCall.valid
    /\ \E i \in CallsOn("Stressed") : lastCall.out.calls[i].ret.ok
    /\ \E i \in CallsOn("ProcessSpanImmediately") :
           lastCall.out.calls[i].ret = Ret(TRUE, ErrNil)
    /\ lastCall.out.err = ErrNil

\* C6: when AddSpan refuses the span with would-block, the classifier counts
\* one drop, does not count a span, and returns that same error; any other
\* error of AddSpan is returned unchanged.
C6_AddSpanErrorReturned ==
    \A i \in CallsOn("AddSpan") :
        LET err == lastCall.out.calls[i].ret.err
        IN  /\ err = ErrWouldBlock =>
                /\ lastCall.out.incs = <<"incoming_router_dropped">>
                /\ lastCall.out.err = ErrWouldBlock
                /\ metrics["incoming_router_dropped"] >= 1
            /\ err # ErrNil => lastCall.out.err = err

C6_Witness ==
    /\ \E i \in CallsOn("AddSpan") : lastCall.out.calls[i].ret.err = ErrWouldBlock
    /\ lastCall.out.err = ErrWouldBlock
    /\ metrics["incoming_router_dropped"] = 1
    /\ metrics["incoming_router_span"] = 0

\* C7: on the single-event endpoint the response status is 429 when the
\* collector refused the span with would-block, and 400 when the collector
\* returned any other error.
C7_EventStatusOnCollectorError ==
    (req.kind = "event" /\ pc = "done") =>
        \A i \in CallsOn("AddSpan") :
            LET err == lastCall.out.calls[i].ret.err
            IN  /\ err = ErrWouldBlock => HTTPStatus = 429
                /\ err \notin {ErrNil, ErrWouldBlock} => HTTPStatus = 400

\* C8: the span's is-root flag is true iff none of the configured parent-id
\* attribute names is present in the event's attributes, for every
\* configured list of names.
C8_RootIffNoParentID ==
    \A i \in DOMAIN lastCall.out.calls :
        lastCall.out.calls[i].op # "EnqueueEvent" =>
            (lastCall.out.calls[i].isRoot <=>
                \A j \in DOMAIN cfg.parentNames :
                    ~Has(lastCall.ev.data, cfg.parentNames[j]))

\* C9: every event or span handed downstream, by any ingest path, carries a
\* sample rate of at least 1.
C9_SampleRateAtLeastOne ==
    \A i \in Downstream : lastCall.out.calls[i].rate >= 1

----------------------------------------------------------------------------
(* Properties of the environment cache (under CacheSpec).                  *)

\* C10: at most one getFn call is in flight for any key, and at most one
\* over all keys.
C10_OneLookupInFlight ==
    /\ \A key \in CacheKeys : Cardinality(InFlight(key)) <= 1
    /\ Cardinality({c \in Callers : cpc[c] = "lookup"}) <= 1

C10_Witness ==
    \E c, d \in Callers :
        /\ c # d
        /\ cpc[c] = "lookup"
        /\ cpc[d] = "lock"
        /\ ckey[d] = ckey[c]

\* the key holds an entry whose expiry time has not passed
Unexpired(key) == items[key].present /\ now < items[key].expiresAt
\* the step in which the get of goroutine c returns
GetReturns(c) == cpc[c] # "idle" /\ cpc'[c] = "idle"
\* the get calls made on `key` while it was absent from the map
ColdGets(key) ==
    {c \in Callers : /\ cpc[c] # "idle" \/ cret[c].set
                     /\ ckey[c] = key
                     /\ centry[c] \in {"cold", "coldjoin"}}
\* every get so far is one of two or more overlapping calls on the cold `key`
ConcurrentColdGets(key) ==
    /\ gets >= 2
    /\ gets = Cardinality(ColdGets(key))
    /\ Cardinality({c \in ColdGets(key) : centry[c] = "cold"}) = 1
\* the calls on `key` looked up at most once and returned the same
SingleFlight(key) ==
    /\ lookups[key] <= 1
    /\ \A c, d \in ColdGets(key) : cret[c].set /\ cret[d].set => cret[c] = cret[d]

\* C11 (as stated): concurrent get calls on the same cold key invoke the
\* external lookup at most once in total and all return the same value.
C11_ColdKeyLooksUpOnce ==
    \A k \in CacheKeys : ConcurrentColdGets(k) => SingleFlight(k)

\* C11 (amended): concurrent get calls on the same cold key invoke the lookup
\* at most once and return the same value as long as no lookup has failed and
\* no entry can have expired yet; and at any time, while the key holds an
\* unexpired entry no lookup is invoked for it and every get on it that
\* returns hands back that entry's value with no error.
C11_OneLookupWhileUnexpired ==
    /\ [](\A k \in CacheKeys :
            /\ ConcurrentColdGets(k)
            /\ now < CacheTTL
            /\ \A c \in ColdGets(k) : cret[c].err = ErrNil
            => SingleFlight(k))
    /\ [][\A k \in CacheKeys : Unexpired(k) =>
            /\ lookups'[k] = lookups[k]
            /\ \A c \in Callers : GetReturns(c) /\ ckey[c] = k =>
                   cret'[c] = [set |-> TRUE, val |-> items[k].value, err |-> ErrNil]]_vars

\* two overlapping gets on a cold key have both returned after one lookup
C11_Witness ==
    \E k \in CacheKeys :
        /\ ConcurrentColdGets(k)
        /\ lookups[k] = 1
        /\ \A c \in ColdGets(k) : cpc[c] = "idle" /\ cret[c].set /\ cret[c].err = ErrNil

\* the entry addItem stores for a value looked up now
StoredNow(value) == [present |-> TRUE, value |-> value, expiresAt |-> now + CacheTTL]

C13_FailedLookupNotCached ==
    [][\A c \in Callers :
          /\ GetReturns(c) /\ cret'[c].err # ErrNil =>
                 /\ cpc[c] = "lookup"
                 /\ cret'[c] = [set |-> TRUE, val |-> "", err |-> "ErrLookup"]
                 /\ items' = items
                 /\ ~Unexpired(ckey[c])'
          /\ cpc[c] = "recheck" /\ cpc'[c] # "recheck" /\ ~Unexpired(ckey[c]) =>
                 cpc'[c] = "lookup"]_vars

\* after a get on a key failed, a later get on that key is inside the lookup
C13_Witness ==
    \E c, d \in Callers :
        /\ c # d /\ ckey[c] = ckey[d]
        /\ centry[c] = "cold" /\ centry[d] = "cold"
        /\ cpc[c] = "idle" /\ cret[c].set /\ cret[c].err # ErrNil
        /\ cpc[d] = "lookup"
        /\ ~items[ckey[c]].present
        /\ lookups[ckey[c]] = 2

\* C14: an empty string looked up successfully is cached like any value: while
\* its entry is unexpired every get on the key returns the empty string with
\* no error and the lookup is not invoked again.
C14_EmptyValueCached ==
    [][\A k \in CacheKeys : Unexpired(k) /\ items[k].value = "" =>
          /\ lookups'[k] = lookups[k]
          /\ \A c \in Callers : GetReturns(c) /\ ckey[c] = k =>
                 cret'[c] = [set |-> TRUE, val |-> "", err |-> ErrNil]]_vars

\* a get that found the cached empty string has returned it, the key having
\* been looked up once
C14_Witness ==
    \E c \in Callers :
        /\ cpc[c] = "idle" /\ cret[c] = [set |-> TRUE, val |-> "", err |-> ErrNil]
        /\ centry[c] = "warm"
        /\ Unexpired(ckey[c]) /\ items[ckey[c]].value = ""
        /\ lookups[ckey[c]] = 1

\* the request's normalisation (dataset name, upstream API host, environment)
\* fails
NormalisationFails(r) ==
    r.dataset = "" \/ r.apiErr \/ GetEnvironmentName(r).err # ErrNil

\* C15: every event or span handed downstream has an empty environment if and
\* only if the request's API key is legacy or the environment cache returned
\* the empty string for the key; none has an empty environment because the
\* environment lookup failed.
C15_EmptyEnvironmentIffLegacyOrEmpty ==
    \A i \in Downstream :
        lastCall.out.calls[i].env = ""
            <=> (req.key = "legacy" \/ req.envRes = [val |-> "", err |-> ErrNil])

\* C19: in the batch handler a normalisation failure aborts the request: one
\* error response (400, ReqToEvent) is written, no record is passed to the
\* classifier, and no response array is written afterwards.
C19_BatchNormalisationFailureAborts ==
    (req.kind = "batch" /\ req.decode = "ok" /\ pc # "start" /\ NormalisationFails(req)) =>
        /\ written = <<HTTPError("ErrReqToEvent")>>
        /\ written[1].status = 400
        /\ classified = <<>>
        /\ ~panicked

\* the request is a single-event POST whose body is the probe event
ProbeEventHandled ==
    /\ req.kind = "event" /\ req.decode = "ok" /\ pc = "done"
    /\ req.records[1].data = ProbeData

\* C20 (as stated): a single-event POST whose body is a probe event completes
\* with status 200, makes no downstream call and increments no metric counter
\* at all.
C20_ProbeEventCountsNothing ==
    ProbeEventHandled =>
        /\ HTTPStatus = 200
        /\ lastCall.valid /\ lastCall.out.calls = <<>>
        /\ metrics = [n \in MetricNames |-> 0]

\* C20 (amended): a single-event POST whose body is a probe event and whose
\* normalisation succeeds completes with status 200, makes no downstream call,
\* and increments no counter but incoming_router_event, which the handler
\* increments once on entry.
C20_ProbeEventCountsOnlyRequest ==
    (ProbeEventHandled /\ ~NormalisationFails(req)) =>
        /\ HTTPStatus = 200
        /\ written = <<>>
        /\ lastCall.valid /\ lastCall.out.calls = <<>>
        /\ metrics = [n \in MetricNames |->
                         IF n = "incoming_router_event" THEN 1 ELSE 0]

\* a probe event has been handled and answered 200
C20_Witness ==
    /\ ProbeEventHandled
    /\ ~NormalisationFails(req)
    /\ lastCall.valid /\ lastCall.ev.data = ProbeData
    /\ HTTPStatus = 200

----------------------------------------------------------------------------
(* Properties of the decoder pool (under PoolSpec and PoolFairSpec).       *)

\* the decoders buffered in the channel
Pooled == {zstdDecoders[i] : i \in DOMAIN zstdDecoders}

\* C16: the decoders in the pool plus those held by requests are always the N
\* (4) that were made: at most N requests hold one, none is held by two
\* requests or held and pooled at once, every pooled decoder has been reset,
\* a request that finds the pool empty stays blocked, and gzip and identity
\* requests never take a decoder.
C16_PoolConservation ==
    /\ [](/\ Len(zstdDecoders) + Cardinality(Holders) = numZstdDecoders
          /\ Cardinality(Pooled) = Len(zstdDecoders)
          /\ Cardinality(Holders) <= numZstdDecoders
          /\ \A r, q \in Holders : r # q => pheld[r] # pheld[q]
          /\ \A r \in Holders : pheld[r] \notin Pooled /\ penc[r] = "zstd"
          /\ \A d \in Pooled : dsrc[d] = NoBody)
    /\ [][\A r \in PoolRequests :
            /\ ppc[r] = "receive" /\ zstdDecoders = <<>> => ppc'[r] = "receive"
            /\ ppc[r] = "idle" /\ ppc'[r] = "done" =>
                   /\ penc'[r] # "zstd"
                   /\ zstdDecoders' = zstdDecoders /\ pheld' = pheld]_vars

\* all N decoders are held and one more zstd request waits at the empty pool
C16_Witness ==
    /\ zstdDecoders = <<>>
    /\ Cardinality(Holders) = numZstdDecoders
    /\ \E r \in PoolRequests : ppc[r] = "receive" /\ penc[r] = "zstd"

\* C17: under fair scheduling, with every body read finishing, every request
\* that has come in (more of them than decoders) gets a decoder and completes,
\* and the pool ends with all N decoders back in it.
C17_AllRequestsComplete ==
    <>[](/\ \A r \in PoolRequests : ppc[r] \in {"idle", "done"}
         /\ Holders = {}
         /\ Len(zstdDecoders) = numZstdDecoders)

\* more zstd requests than decoders have all completed and the pool is full
C17_Witness ==
    /\ \A r \in PoolRequests : ppc[r] = "done" /\ penc[r] = "zstd"
    /\ NumRequests > numZstdDecoders
    /\ Len(zstdDecoders) = numZstdDecoders

----------------------------------------------------------------------------
(* Properties of the lifecycle (under LifeSpec).                           *)

\* C18: whenever Stop has returned, with or without an error, the done
\* channel has been closed, exactly once.
C18_StopClosesDoneOnce ==
    (spc = "idle" /\ stopRet \in {"nil", "err"}) =>
        donech = "closed" /\ closes = 1

----------------------------------------------------------------------------
(* Further properties of the classifier (under Spec).                      *)

\* the calls of the latest invocation that hand a span to the collector
SpanCalls == CallsOn("ProcessSpanImmediately") \cup CallsOn("AddSpan")

\* the event of the latest invocation has none of the configured span-ID names
NoSpanIDName == \A i \in DOMAIN cfg.spanNames : ~Has(lastCall.ev.data, cfg.spanNames[i])

\* the value under the first configured span-ID name
SuppliedSpanID == lastCall.ev.data[cfg.spanNames[1]]

\* C21: a span made from an event with a trace ID and no span-ID attribute has
\* an ID synthesized from the trace ID alone (the same for every event of that
\* trace ID); when a non-empty span-ID attribute is supplied the span's ID is
\* the supplied value.
C21_SpanIDFromTraceID ==
    \A i \in SpanCalls :
        LET call == lastCall.out.calls[i]
        IN  /\ NoSpanIDName => call.spanID = [gen |-> TRUE, v |-> call.traceID]
            /\ (~NoSpanIDName /\ SuppliedSpanID.t = "string" /\ SuppliedSpanID.v # "") =>
                   call.spanID = [gen |-> FALSE, v |-> SuppliedSpanID.v]

\* a span with a synthesized ID has reached the collector
C21_Witness ==
    /\ lastCall.valid /\ NoSpanIDName
    /\ \E i \in CallsOn("AddSpan") :
           /\ lastCall.out.calls[i].traceID = "A"
           /\ lastCall.out.calls[i].spanID = [gen |-> TRUE, v |-> "A"]

\* the value of the first of `names`, in order, that the map holds a string
\* under ("" when there is none)
RECURSIVE FirstString(_, _, _)
FirstString(d, names, i) ==
    IF i > Len(names) THEN ""
    ELSE IF d[names[i]].t = "string" THEN d[names[i]].v
    ELSE FirstString(d, names, i + 1)

\* the event of the latest invocation supplies no span ID that is not a string
SpanIDIsString == NoSpanIDName \/ SuppliedSpanID.t = "string"

\* C22: the classifier's trace ID is the value of the first configured name
\* present with a string value; a name present with a non-string value, or an
\* earlier name that is absent, neither stops the scan nor makes the
\* classification fail; every span handed to the collector has a non-empty
\* trace ID.
C22_TraceIDFirstString ==
    (lastCall.valid /\ ~IsProbe(lastCall.ev.data) /\ SpanIDIsString) =>
        LET traceID == FirstString(lastCall.ev.data, cfg.traceNames, 1)
        IN  /\ ~lastCall.out.panic
            /\ traceID = "" => SpanCalls = {} /\ CallsOn("EnqueueEvent") # {}
            /\ traceID # "" => CallsOn("EnqueueEvent") = {} /\ CallsOn("Stressed") # {}
            /\ \A i \in SpanCalls :
                   lastCall.out.calls[i].traceID = traceID /\ traceID # ""

\* how many times the latest invocation incremented the counter `name`
Incremented(name) ==
    Cardinality({i \in DOMAIN lastCall.out.incs : lastCall.out.incs[i] = name})

\* two calls were made with the same span
SameSpan(a, b) == a.traceID = b.traceID /\ a.spanID = b.spanID /\ a.isRoot = b.isRoot

\* C23: for every span, ProcessSpanImmediately is called only when Stressed()
\* answered true, and at most once; when it answers (false, nil) AddSpan is
\* then called exactly once for the same span; when the collector is not
\* stressed AddSpan is called exactly once and ProcessSpanImmediately never;
\* the span counter is incremented exactly when AddSpan succeeded.
C23_StressShortCircuitOrder ==
    \A s \in CallsOn("Stressed") :
        LET calls == lastCall.out.calls
            psi == CallsOn("ProcessSpanImmediately")
            add == CallsOn("AddSpan")
        IN  /\ CallsOn("Stressed") = {1}
            /\ Cardinality(psi) <= 1 /\ Cardinality(add) <= 1
            /\ psi # {} => calls[s].ret.ok /\ psi = {2}
            /\ \A i \in psi : calls[i].ret = Ret(FALSE, ErrNil) =>
                   add = {3} /\ SameSpan(calls[i], calls[3])
            /\ ~calls[s].ret.ok => psi = {} /\ add = {2}
            /\ Incremented("incoming_router_span") =
                   Cardinality({i \in add : calls[i].ret.err = ErrNil})

\* a stressed collector declined a span, which AddSpan then accepted
C23_Witness ==
    /\ lastCall.valid
    /\ \E i \in CallsOn("ProcessSpanImmediately") :
           lastCall.out.calls[i].ret = Ret(FALSE, ErrNil)
    /\ \E i \in CallsOn("AddSpan") : lastCall.out.calls[i].ret.err = ErrNil
    /\ Incremented("incoming_router_span") = 1

\* C29: when the collector is stressed and ProcessSpanImmediately returns an
\* error, the classifier returns that error, does not call AddSpan and
\* increments none of the span, dropped and non-span counters; any one
\* classifier call increments at most one of the three, at most once.
C29_ImmediateErrorReturned ==
    lastCall.valid =>
        /\ \A i \in CallsOn("ProcessSpanImmediately") :
               lastCall.out.calls[i].ret.err # ErrNil =>
                   /\ lastCall.out.err = lastCall.out.calls[i].ret.err
                   /\ ~lastCall.out.panic
                   /\ CallsOn("AddSpan") = {}
                   /\ lastCall.out.incs = <<>>
        /\ Incremented("incoming_router_nonspan") + Incremented("incoming_router_span")
              + Incremented("incoming_router_dropped") <= 1

\* ProcessSpanImmediately has failed on a span of a stressed collector
C29_Witness ==
    /\ lastCall.valid
    /\ \E i \in CallsOn("ProcessSpanImmediately") :
           lastCall.out.calls[i].ret.err = ErrOther
    /\ lastCall.out.err = ErrOther

\* C27: for a request with Content-Encoding zstd, on every exit path of body
\* acquisition (success, reset failure, decompression error) the acquired
\* decoder is reset and returned to the pool exactly once; on an error the
\* handler responds 400 with PostBody and passes no record to the classifier.
C27_ZstdDecoderReturnedOnEveryPath ==
    (req.kind \in {"event", "batch"} /\ req.enc = "zstd" /\ pc # "start") =>
        /\ zstdDecoders = Append(Tail(MakeDecoders(numZstdDecoders)), 1)
        /\ \A d \in Decoders : dsrc[d] = NoBody
        /\ req.decode \in BodyErrors =>
               /\ pc = "done"
               /\ written = <<HTTPError("ErrPostBody")>>
               /\ HTTPStatus = 400
               /\ classified = <<>>

\* a zstd body has failed to decompress and the handler has answered
C27_Witness ==
    /\ req.enc = "zstd"
    /\ req.decode = "bad_body"
    /\ pc = "done"
    /\ pres = "err"
    /\ Len(zstdDecoders) = numZstdDecoders
    /\ written # <<>>

\* C28: when the environment lookup of an OTLP request fails, the request
\* handler returns the error and hands no event to the classifier.
C28_OtlpEnvironmentFailureReturned ==
    (req.kind = "otlp" /\ pc = "done" /\ ~req.apiErr
        /\ GetEnvironmentName(req).err # ErrNil) =>
        /\ otlpRet = "error"
        /\ classified = <<>>

----------------------------------------------------------------------------
(* Properties of LnS, Stop and the health ticker (under LifeSpec).         *)

\* Stop has returned (or panicked)
StopReturned == stops > 0 /\ spc = "idle"

\* the steps of a whole Stop on this router, in order
FullStop ==
    <<"Shutdown">> \o (IF grpcEnabled THEN <<"GracefulStop">> ELSE <<>>)
        \o <<"close", "Wait">>

\* C24: every invocation of Stop performs, in this order: the HTTP server's
\* graceful shutdown, then (if the gRPC server was started) its graceful
\* stop, then the closing of the done channel, then the wait for background
\* tasks; whenever the gRPC server is up, Stop gracefully stops it before
\* returning, also when the HTTP shutdown reported an error.
C24_StopRunsAllStepsInOrder ==
    StopReturned =>
        /\ stopLog = FullStop
        /\ grpcServer # "serving"

\* C25: whenever LnS starts the gRPC server it also starts the health ticker,
\* and after every tick the status of "ready" is SERVING iff the reporter is
\* ready, of "alive" iff it is alive, and of "" iff it is both.
C25_LnSStartsHealthTicker ==
    /\ [](grpcServer = "serving" => hpc # "none")
    /\ [][HealthTick =>
            /\ hsrv'["ready"] = ServingStatus(health.ready)
            /\ hsrv'["alive"] = ServingStatus(health.alive)
            /\ hsrv'[""] = ServingStatus(health.ready /\ health.alive)]_vars

\* C26: once the done channel is closed, a running health ticker eventually
\* exits (under fair scheduling), and after it has exited it performs no
\* further health-status update.
C26_TickerExitsOnDone ==
    /\ (donech = "closed" /\ hpc = "running") ~> (hpc = "exited")
    /\ [][hpc = "exited" => (hpc' = "exited" /\ hsrv' = hsrv)]_vars

\* a ticker that has set the statuses has exited on the closed channel
C26_Witness ==
    /\ hpc = "exited"
    /\ donech = "closed"
    /\ hsrv[""] # "unset"

----------------------------------------------------------------------------
(* Progress of environmentCache.get (under CacheFairSpec).                 *)

\* the goroutines between get's RUnlock and its deferred Unlock
PastFastPath == {c \in Callers : cpc[c] \in {"lock", "drain", "recheck", "lookup"}}

\* C30: get is deadlock-free: no caller requests the exclusive lock while it
\* still holds the shared lock, the lock is released on every return path
\* (hit, re-check hit, lookup error, lookup success), and so under fair
\* scheduling every get call eventually returns, each lookup returning.
C30_GetIsDeadlockFree ==
    /\ [](\A c \in PastFastPath : c \notin readers)
    /\ [](\A c \in Callers : cpc[c] = "idle" => c \notin readers /\ writer # c)
    /\ \A c \in Callers : (cpc[c] # "idle") ~> (cpc[c] = "idle")

\* a get has returned its lookup's error and released the lock, and a get
\* that waited for the lock now holds it
C30_Witness ==
    \E c, d \in Callers :
        /\ c # d
        /\ cpc[c] = "idle" /\ cret[c].set /\ cret[c].err # ErrNil
        /\ cpc[d] = "recheck" /\ writer = d
        /\ centry[d] = "coldjoin"
====
